---- MODULE Spec2Model ----
(***************************************************************************)
(* Model of tools/simulators/network_topology.py: NetworkDevice, Switch,   *)
(* Host and the NetworkTopology container.                                 *)
(*                                                                         *)
(* A Python exception is modelled as the call's result "ValueError"; the   *)
(* state the handler had reached when it raised is the state after the     *)
(* call.  A peer reference (device object, interface name) is modelled as  *)
(* <<device_id, interface name>>; None is the empty tuple.                 *)
(***************************************************************************)
EXTENDS Integers, Sequences, FiniteSets, TLC

VARIABLES devices, connections, last, pre, nops, collector, cli

vars == <<devices, connections, last, pre, nops, collector, cli>>

\* Longest sequence of calls explored.
MaxOps == 6

None == <<>>

OK == "ok"

ValueError == "ValueError"

DeviceIds == {"d1", "d2"}

IfNames == {"port1", "port2", "eth0"}

\* Largest num_switches and num_hosts handed to a generator.
MaxSwitches == 4

MaxHosts == 88

\* Longest sequence of calls explored on constructed devices.
MaxDevOps == 4

\* Largest num_ports a caller hands to Switch().
MaxPorts == 2

\* num_ports of Switch() when the caller gives none.
DefaultNumPorts == 24

\* Longest 'connections' list of a document handed to load_from_file.
MaxDocConns == 2

\* Outcomes of the three random.randint(0, 255) draws of one MAC address.
RandomDraws == {<<0, 0, 0>>, <<255, 18, 171>>}

----------------------------------------------------------------------------
\* NetworkDevice

NetworkDevice(device_id, device_type, name) ==
  [device_id |-> device_id,
   device_type |-> device_type,
   name |-> IF name = "" THEN device_id ELSE name,
   ifnames |-> <<>>,
   interfaces |-> <<>>,
   properties |-> <<>>]

\* dict assignment d[k] = v
DictSet(d, k, v) == [x \in DOMAIN d \cup {k} |-> IF x = k THEN v ELSE d[x]]

\* del d[k]
DictDel(d, k) == [x \in DOMAIN d \ {k} |-> d[x]]

\* add_interface storing an empty slot whether or not the name exists.
add_interface_reset(dev, interface_name) ==
  [dev EXCEPT !.ifnames = IF interface_name \in DOMAIN dev.interfaces
                          THEN dev.ifnames ELSE Append(dev.ifnames, interface_name),
              !.interfaces = DictSet(dev.interfaces, interface_name, None)]

add_interface(dev, interface_name) ==
  IF interface_name \in DOMAIN dev.interfaces
  THEN dev
  ELSE [dev EXCEPT !.ifnames = Append(dev.ifnames, interface_name),
                   !.interfaces = DictSet(dev.interfaces, interface_name, None)]

set_property(dev, key, value) ==
  [dev EXCEPT !.properties = DictSet(dev.properties, key, value)]

get_property(dev, key, default) ==
  IF key \in DOMAIN dev.properties THEN dev.properties[key] ELSE default

\* f"port{i}"
PortName(i) == "port" \o ToString(i)

RECURSIVE AddPorts(_, _, _)
AddPorts(dev, i, num_ports) ==
  IF i > num_ports THEN dev
  ELSE AddPorts(add_interface(dev, PortName(i)), i + 1, num_ports)

\* Switch seeding the routing properties whatever the switch_type.
Switch_always_l3(device_id, name, num_ports, switch_type) ==
  LET d0 == AddPorts(NetworkDevice(device_id, "switch", name), 1, num_ports)
      d1 == set_property(d0, "switch_type", switch_type)
      d2 == set_property(d1, "vlans",
              [v \in {"1"} |-> [name |-> "default", ports |-> d1.ifnames]])
  IN set_property(set_property(d2, "routing_table", <<>>), "ip_interfaces", <<>>)

Switch(device_id, name, num_ports, switch_type) ==
  LET d0 == AddPorts(NetworkDevice(device_id, "switch", name), 1, num_ports)
      d1 == set_property(d0, "switch_type", switch_type)
      d2 == set_property(d1, "vlans",
              [v \in {"1"} |-> [name |-> "default", ports |-> d1.ifnames]])
  IN IF switch_type = "l3"
     THEN set_property(set_property(d2, "routing_table", <<>>),
                       "ip_interfaces", <<>>)
     ELSE d2

HexDigits == <<"0", "1", "2", "3", "4", "5", "6", "7", "8", "9", "a", "b", "c", "d", "e", "f">>

\* f":{n:x}", without the zero padding
Hex2_unpadded(n) ==
  IF n < 16 THEN <<":", HexDigits[n + 1]>>
  ELSE <<":", HexDigits[(n \div 16) + 1], HexDigits[(n % 16) + 1]>>

\* f":{n:02x}" for n in 0..255, as the sequence of its characters
Hex2(n) == <<":", HexDigits[(n \div 16) + 1], HexDigits[(n % 16) + 1]>>

\* The MAC address as the sequence of its characters; rnd holds the three
\* random.randint(0, 255) draws.
generate_mac_address(rnd) ==
  <<"0", "2", ":", "0", "0", ":", "0", "0">> \o Hex2(rnd[1]) \o Hex2(rnd[2]) \o Hex2(rnd[3])

Host(device_id, name, ip_address, rnd) ==
  LET d0 == add_interface(NetworkDevice(device_id, "host", name), "eth0")
  IN IF ip_address /= ""
     THEN set_property(set_property(d0, "ip_address", ip_address),
                       "mac_address", generate_mac_address(rnd))
     ELSE d0

\* Devices a caller constructs and hands to add_device.
NewDevices ==
  {Switch("d1", "", 2, "l3"), Switch("d2", "S2", 2, "l2"), Host("d2", "", "", <<0, 0, 0>>)}
  \cup {Host("d2", "H2", "10.0.0.5", rnd) : rnd \in RandomDraws}

----------------------------------------------------------------------------
\* NetworkTopology: each operation maps a topology T = [devices, connections]
\* to [T |-> topology after the call, res |-> OK or the exception raised].

Topo(devs, conns) == [devices |-> devs, connections |-> conns]

Ret(T, res) == [T |-> T, res |-> res]

SetSlot(devs, d, i, v) == [devs EXCEPT ![d].interfaces[i] = v]

\* add_device storing the device without looking for its id first.
add_device_overwrite(T, device) ==
  Ret(Topo(DictSet(T.devices, device.device_id, device), T.connections), OK)

add_device(T, device) ==
  IF device.device_id \in DOMAIN T.devices
  THEN Ret(T, ValueError)
  ELSE Ret(Topo(DictSet(T.devices, device.device_id, device), T.connections), OK)

get_device(T, device_id) ==
  IF device_id \notin DOMAIN T.devices THEN Ret(T, ValueError) ELSE Ret(T, OK)

\* connect_devices writing the first slot before it has checked the second.
connect_devices_late_check(T, device1_id, interface1, device2_id, interface2) ==
  IF device1_id \notin DOMAIN T.devices THEN Ret(T, ValueError)
  ELSE IF device2_id \notin DOMAIN T.devices THEN Ret(T, ValueError)
  ELSE IF interface1 \notin DOMAIN T.devices[device1_id].interfaces THEN Ret(T, ValueError)
  ELSE IF interface2 \notin DOMAIN T.devices[device2_id].interfaces THEN Ret(T, ValueError)
  ELSE IF T.devices[device1_id].interfaces[interface1] /= None THEN Ret(T, ValueError)
  ELSE LET s1 == SetSlot(T.devices, device1_id, interface1, <<device2_id, interface2>>)
           s2 == SetSlot(s1, device2_id, interface2, <<device1_id, interface1>>)
       IN IF T.devices[device2_id].interfaces[interface2] /= None
          THEN Ret(Topo(s1, T.connections), ValueError)
          ELSE Ret(Topo(s2, T.connections \cup {<<device1_id, interface1, device2_id, interface2>>}), OK)

connect_devices(T, device1_id, interface1, device2_id, interface2) ==
  IF device1_id \notin DOMAIN T.devices THEN Ret(T, ValueError)
  ELSE IF device2_id \notin DOMAIN T.devices THEN Ret(T, ValueError)
  ELSE IF interface1 \notin DOMAIN T.devices[device1_id].interfaces THEN Ret(T, ValueError)
  ELSE IF interface2 \notin DOMAIN T.devices[device2_id].interfaces THEN Ret(T, ValueError)
  ELSE IF T.devices[device1_id].interfaces[interface1] /= None THEN Ret(T, ValueError)
  ELSE IF T.devices[device2_id].interfaces[interface2] /= None THEN Ret(T, ValueError)
  ELSE LET s1 == SetSlot(T.devices, device1_id, interface1, <<device2_id, interface2>>)
           s2 == SetSlot(s1, device2_id, interface2, <<device1_id, interface1>>)
       IN Ret(Topo(s2, T.connections \cup {<<device1_id, interface1, device2_id, interface2>>}), OK)

\* disconnect_devices clearing only the first of the two slots.
disconnect_devices_one_sided(T, device1_id, interface1, device2_id, interface2) ==
  IF device1_id \notin DOMAIN T.devices THEN Ret(T, ValueError)
  ELSE IF device2_id \notin DOMAIN T.devices THEN Ret(T, ValueError)
  ELSE IF interface1 \notin DOMAIN T.devices[device1_id].interfaces THEN Ret(T, ValueError)
  ELSE IF interface2 \notin DOMAIN T.devices[device2_id].interfaces THEN Ret(T, ValueError)
  ELSE LET conn1 == T.devices[device1_id].interfaces[interface1]
       IN IF conn1 = None \/ conn1[1] /= device2_id \/ conn1[2] /= interface2
          THEN Ret(T, ValueError)
          ELSE Ret(Topo(SetSlot(T.devices, device1_id, interface1, None),
                        T.connections \ {<<device1_id, interface1, device2_id, interface2>>}), OK)

\* disconnect_devices comparing only the peer device of the first slot.
disconnect_devices_device_only(T, device1_id, interface1, device2_id, interface2) ==
  IF device1_id \notin DOMAIN T.devices THEN Ret(T, ValueError)
  ELSE IF device2_id \notin DOMAIN T.devices THEN Ret(T, ValueError)
  ELSE IF interface1 \notin DOMAIN T.devices[device1_id].interfaces THEN Ret(T, ValueError)
  ELSE IF interface2 \notin DOMAIN T.devices[device2_id].interfaces THEN Ret(T, ValueError)
  ELSE LET conn1 == T.devices[device1_id].interfaces[interface1]
       IN IF conn1 = None \/ conn1[1] /= device2_id
          THEN Ret(T, ValueError)
          ELSE LET s1 == SetSlot(T.devices, device1_id, interface1, None)
                   s2 == SetSlot(s1, device2_id, interface2, None)
               IN Ret(Topo(s2, T.connections \ {<<device1_id, interface1, device2_id, interface2>>}), OK)

\* disconnect_devices dropping every record of the first device.
disconnect_devices_purge(T, device1_id, interface1, device2_id, interface2) ==
  IF device1_id \notin DOMAIN T.devices THEN Ret(T, ValueError)
  ELSE IF device2_id \notin DOMAIN T.devices THEN Ret(T, ValueError)
  ELSE IF interface1 \notin DOMAIN T.devices[device1_id].interfaces THEN Ret(T, ValueError)
  ELSE IF interface2 \notin DOMAIN T.devices[device2_id].interfaces THEN Ret(T, ValueError)
  ELSE LET conn1 == T.devices[device1_id].interfaces[interface1]
       IN IF conn1 = None \/ conn1[1] /= device2_id \/ conn1[2] /= interface2
          THEN Ret(T, ValueError)
          ELSE LET s1 == SetSlot(T.devices, device1_id, interface1, None)
                   s2 == SetSlot(s1, device2_id, interface2, None)
               IN Ret(Topo(s2, {c \in T.connections : c[1] /= device1_id /\ c[3] /= device1_id}), OK)

disconnect_devices(T, device1_id, interface1, device2_id, interface2) ==
  IF device1_id \notin DOMAIN T.devices THEN Ret(T, ValueError)
  ELSE IF device2_id \notin DOMAIN T.devices THEN Ret(T, ValueError)
  ELSE IF interface1 \notin DOMAIN T.devices[device1_id].interfaces THEN Ret(T, ValueError)
  ELSE IF interface2 \notin DOMAIN T.devices[device2_id].interfaces THEN Ret(T, ValueError)
  ELSE LET conn1 == T.devices[device1_id].interfaces[interface1]
       IN IF conn1 = None \/ conn1[1] /= device2_id \/ conn1[2] /= interface2
          THEN Ret(T, ValueError)
          ELSE LET s1 == SetSlot(T.devices, device1_id, interface1, None)
                   s2 == SetSlot(s1, device2_id, interface2, None)
               IN Ret(Topo(s2, T.connections \ {<<device1_id, interface1, device2_id, interface2>>}), OK)

\* The loop of remove_device over items = list(device.interfaces.items()),
\* a snapshot <<interface, connection>> taken before the first disconnect.
RECURSIVE DisconnectAll(_, _, _, _)
DisconnectAll(T, device_id, items, k) ==
  IF k > Len(items) THEN Ret(T, OK)
  ELSE LET intf == items[k][1]
           conn == items[k][2]
       IN IF conn = None
          THEN DisconnectAll(T, device_id, items, k + 1)
          ELSE LET r == disconnect_devices(T, device_id, intf, conn[1], conn[2])
               IN IF r.res /= OK THEN r
                  ELSE DisconnectAll(r.T, device_id, items, k + 1)

remove_device(T, device_id) ==
  IF device_id \notin DOMAIN T.devices THEN Ret(T, ValueError)
  ELSE LET device == T.devices[device_id]
           items == [k \in 1..Len(device.ifnames) |->
                       <<device.ifnames[k], device.interfaces[device.ifnames[k]]>>]
           r == DisconnectAll(T, device_id, items, 1)
       IN IF r.res /= OK THEN r
          ELSE Ret(Topo(DictDel(r.T.devices, device_id), r.T.connections), OK)

SetDevice(T, device_id, dev) == Topo([T.devices EXCEPT ![device_id] = dev], T.connections)

assign_ip_to_host(T, host_id, ip_address, subnet_mask) ==
  IF host_id \notin DOMAIN T.devices THEN Ret(T, ValueError)
  ELSE LET device == T.devices[host_id]
       IN IF device.device_type /= "host" THEN Ret(T, ValueError)
          ELSE Ret(SetDevice(T, host_id,
                     set_property(set_property(device, "ip_address", ip_address),
                                  "subnet_mask", subnet_mask)), OK)

\* configure_vlan starting from an empty VLAN table.
configure_vlan_replace(T, switch_id, vlan_id, vlan_name, ports) ==
  IF switch_id \notin DOMAIN T.devices THEN Ret(T, ValueError)
  ELSE LET device == T.devices[switch_id]
       IN IF device.device_type /= "switch" THEN Ret(T, ValueError)
          ELSE LET vlans2 == DictSet(<<>>, vlan_id, [name |-> vlan_name, ports |-> ports])
               IN Ret(SetDevice(T, switch_id, set_property(device, "vlans", vlans2)), OK)

configure_vlan(T, switch_id, vlan_id, vlan_name, ports) ==
  IF switch_id \notin DOMAIN T.devices THEN Ret(T, ValueError)
  ELSE LET device == T.devices[switch_id]
       IN IF device.device_type /= "switch" THEN Ret(T, ValueError)
          ELSE LET vlans == get_property(device, "vlans", <<>>)
                   vlans2 == DictSet(vlans, vlan_id, [name |-> vlan_name, ports |-> ports])
               IN Ret(SetDevice(T, switch_id, set_property(device, "vlans", vlans2)), OK)

\* configure_stp writing the priority to every switch of the topology.
configure_stp_every_switch(T, switch_id, priority) ==
  IF switch_id \notin DOMAIN T.devices THEN Ret(T, ValueError)
  ELSE LET device == T.devices[switch_id]
       IN IF device.device_type /= "switch" THEN Ret(T, ValueError)
          ELSE Ret(Topo([d \in DOMAIN T.devices |->
                          IF T.devices[d].device_type = "switch"
                          THEN set_property(T.devices[d], "stp_priority", priority)
                          ELSE T.devices[d]],
                        T.connections), OK)

configure_stp(T, switch_id, priority) ==
  IF switch_id \notin DOMAIN T.devices THEN Ret(T, ValueError)
  ELSE LET device == T.devices[switch_id]
       IN IF device.device_type /= "switch" THEN Ret(T, ValueError)
          ELSE Ret(SetDevice(T, switch_id, set_property(device, "stp_priority", priority)), OK)

\* configure_routing accepting every switch.
configure_routing_any_switch(T, switch_id, dest_network, next_hop, metric) ==
  IF switch_id \notin DOMAIN T.devices THEN Ret(T, ValueError)
  ELSE LET device == T.devices[switch_id]
       IN IF device.device_type /= "switch"
          THEN Ret(T, ValueError)
          ELSE LET routing_table == get_property(device, "routing_table", <<>>)
                   rt2 == DictSet(routing_table, dest_network,
                                  [next_hop |-> next_hop, metric |-> metric])
               IN Ret(SetDevice(T, switch_id, set_property(device, "routing_table", rt2)), OK)

configure_routing(T, switch_id, dest_network, next_hop, metric) ==
  IF switch_id \notin DOMAIN T.devices THEN Ret(T, ValueError)
  ELSE LET device == T.devices[switch_id]
       IN IF device.device_type /= "switch" \/ get_property(device, "switch_type", None) /= "l3"
          THEN Ret(T, ValueError)
          ELSE LET routing_table == get_property(device, "routing_table", <<>>)
                   rt2 == DictSet(routing_table, dest_network,
                                  [next_hop |-> next_hop, metric |-> metric])
               IN Ret(SetDevice(T, switch_id, set_property(device, "routing_table", rt2)), OK)

\* NetworkDevice.to_dict
device_to_dict(dev) ==
  [id |-> dev.device_id,
   type |-> dev.device_type,
   name |-> dev.name,
   interfaces |-> dev.ifnames,
   connections |-> [intf \in DOMAIN dev.interfaces |->
                      IF dev.interfaces[intf] /= None
                      THEN [device |-> dev.interfaces[intf][1],
                            interface |-> dev.interfaces[intf][2]]
                      ELSE None],
   properties |-> dev.properties]

\* NetworkTopology.to_dict.  The 'connections' list is built by iterating the
\* set, so its order is the set's; it is kept here as the set of its entries.
to_dict(T) ==
  [devices |-> [device_id \in DOMAIN T.devices |-> device_to_dict(T.devices[device_id])],
   connections |-> {[device1 |-> c[1], interface1 |-> c[2],
                     device2 |-> c[3], interface2 |-> c[4]] : c \in T.connections}]

----------------------------------------------------------------------------
\* save_to_file / load_from_file

\* The sequences that list every element of the set S once.
RECURSIVE Orderings(_)
Orderings(S) ==
  IF S = {} THEN {<<>>}
  ELSE UNION {{<<x>> \o q : q \in Orderings(S \ {x})} : x \in S}

\* The documents save_to_file can write for T: to_dict with the
\* 'connections' list in the iteration order of the set, whichever that is.
SavedDocuments(T) ==
  {[devices |-> to_dict(T).devices, connections |-> q] :
     q \in Orderings(to_dict(T).connections)}

\* The property replay keeping what the constructor has set.
ReplayProperties_defaults_win(dev, props) ==
  [dev EXCEPT !.properties =
     [k \in DOMAIN dev.properties \cup DOMAIN props |->
        IF k \in DOMAIN dev.properties THEN dev.properties[k] ELSE props[k]]]

\* for key, value in device_data['properties'].items(): device.set_property(key, value)
ReplayProperties(dev, props) ==
  [dev EXCEPT !.properties =
     [k \in DOMAIN dev.properties \cup DOMAIN props |->
        IF k \in DOMAIN props THEN props[k] ELSE dev.properties[k]]]

\* The device load_from_file builds for one entry of data['devices'];
\* rnd holds the random draws of the Host constructor.
LoadDevice(device_id, device_data, rnd) ==
  IF device_data.type = "switch"
  THEN LET switch_type == IF "switch_type" \in DOMAIN device_data.properties
                          THEN device_data.properties["switch_type"] ELSE "l2"
           num_ports == Len(device_data.interfaces)
       IN ReplayProperties(Switch(device_id, device_data.name, num_ports, switch_type),
                           device_data.properties)
  ELSE LET ip_address == IF "ip_address" \in DOMAIN device_data.properties
                         THEN device_data.properties["ip_address"] ELSE ""
       IN ReplayProperties(Host(device_id, device_data.name, ip_address, rnd),
                           device_data.properties)

\* load_from_file skipping the records connect_devices rejects.
RECURSIVE ReplayConnections_skip(_, _, _)
ReplayConnections_skip(T, conns, k) ==
  IF k > Len(conns) THEN Ret(T, OK)
  ELSE LET c == conns[k]
           r == connect_devices(T, c.device1, c.interface1, c.device2, c.interface2)
       IN ReplayConnections_skip(r.T, conns, k + 1)

\* for connection in data['connections']: topology.connect_devices(...)
RECURSIVE ReplayConnections(_, _, _)
ReplayConnections(T, conns, k) ==
  IF k > Len(conns) THEN Ret(T, OK)
  ELSE LET c == conns[k]
           r == connect_devices(T, c.device1, c.interface1, c.device2, c.interface2)
       IN IF r.res /= OK THEN r
          ELSE ReplayConnections(r.T, conns, k + 1)

\* load_from_file on the parsed document data; entries that are neither
\* switch nor host are skipped.  The keys of data['devices'] are distinct,
\* so no add_device fails and the order of the entries does not matter.
load_from_file(data, rnds) ==
  LET ids == {id \in DOMAIN data.devices : data.devices[id].type \in {"switch", "host"}}
      devs == [id \in ids |-> LoadDevice(id, data.devices[id], rnds[id])]
  IN ReplayConnections(Topo(devs, {}), data.connections, 1)

----------------------------------------------------------------------------
\* Generators

\* What get_available_interface returns when every slot is occupied: Python's
\* None, which callers test by truth value; no interface has this name.
NoInterface == ""

\* get_available_interface returning the last empty interface.
get_available_interface_last(dev) ==
  LET free == {k \in 1..Len(dev.ifnames) : dev.interfaces[dev.ifnames[k]] = None}
  IN IF free = {} THEN NoInterface
     ELSE dev.ifnames[CHOOSE k \in free : \A j \in free : k >= j]

get_available_interface(dev) ==
  LET free == {k \in 1..Len(dev.ifnames) : dev.interfaces[dev.ifnames[k]] = None}
  IN IF free = {} THEN NoInterface
     ELSE dev.ifnames[CHOOSE k \in free : \A j \in free : k <= j]

SwitchId(i) == "switch" \o ToString(i)

HostId(i) == "host" \o ToString(i)

\* for i in range(1, num_switches + 1): topology.add_device(Switch(...)).
\* The ids switch1..switchN are new keys, so no add_device raises and the
\* loop leaves one more entry per i.
CreateSwitches(T, num_switches) ==
  LET ids == {SwitchId(i) : i \in 1..num_switches}
      new(id) == LET i == CHOOSE i \in 1..num_switches : SwitchId(i) = id
                 IN Switch(id, "Switch " \o ToString(i), DefaultNumPorts, "l2")
  IN Topo(T.devices @@ [id \in ids |-> new(id)], T.connections)

\* The host loop deriving each host's address from its random draws.
CreateHosts_random_ip(T, num_hosts, rnds) ==
  LET ids == {HostId(i) : i \in 1..num_hosts}
      new(id) == LET i == CHOOSE i \in 1..num_hosts : HostId(i) = id
                 IN Host(id, "Host " \o ToString(i),
                         "192.168.1." \o ToString(rnds[i][3]), rnds[i])
  IN Topo(T.devices @@ [id \in ids |-> new(id)], T.connections)

\* for i in range(1, num_hosts + 1): topology.add_device(Host(...)), with
\* the new keys host1..hostN.
CreateHosts(T, num_hosts, rnds) ==
  LET ids == {HostId(i) : i \in 1..num_hosts}
      new(id) == LET i == CHOOSE i \in 1..num_hosts : HostId(i) = id
                 IN Host(id, "Host " \o ToString(i),
                         "192.168.1." \o ToString(100 + i), rnds[i])
  IN Topo(T.devices @@ [id \in ids |-> new(id)], T.connections)

\* The connect of the generators without its guard.
ConnectAvailable_unguarded(T, id1, id2) ==
  connect_devices(T, id1, get_available_interface(T.devices[id1]),
                  id2, get_available_interface(T.devices[id2]))

\* The guarded connect of the generators: both devices' first free
\* interfaces, or nothing when one of them has none.
ConnectAvailable(T, id1, id2) ==
  LET interface1 == get_available_interface(T.devices[id1])
      interface2 == get_available_interface(T.devices[id2])
  IN IF interface1 /= NoInterface /\ interface2 /= NoInterface
     THEN connect_devices(T, id1, interface1, id2, interface2)
     ELSE Ret(T, OK)

Min(a, b) == IF a <= b THEN a ELSE b

Max(a, b) == IF a >= b THEN a ELSE b

\* Host placement by i % num_switches.
SwitchIndex_round_robin(i, hosts_per_switch, num_switches) == i % num_switches

\* switch_index = min(i // hosts_per_switch, num_switches - 1), i from 0
SwitchIndex(i, hosts_per_switch, num_switches) ==
  Min(i \div hosts_per_switch, num_switches - 1)

\* One iteration of "for i, host in enumerate(hosts)": connect host i to
\* switches[switch_index].
ConnectHost(T, i, num_hosts, num_switches) ==
  LET hosts_per_switch == Max(1, num_hosts \div num_switches)
      switch_index == SwitchIndex(i, hosts_per_switch, num_switches)
  IN ConnectAvailable(T, HostId(i + 1), SwitchId(switch_index + 1))

\* The iterations lo .. hi-1 of that loop, in order, stopping at the first
\* that raises; the range is halved to keep the evaluation shallow.
RECURSIVE ConnectHostsRange(_, _, _, _, _)
ConnectHostsRange(T, lo, hi, num_hosts, num_switches) ==
  IF lo >= hi THEN Ret(T, OK)
  ELSE IF hi = lo + 1 THEN ConnectHost(T, lo, num_hosts, num_switches)
  ELSE LET mid == (lo + hi) \div 2
           r == ConnectHostsRange(T, lo, mid, num_hosts, num_switches)
       IN IF r.res /= OK THEN r
          ELSE ConnectHostsRange(r.T, mid, hi, num_hosts, num_switches)

ConnectHosts(T, num_hosts, num_switches) ==
  ConnectHostsRange(T, 0, num_hosts, num_hosts, num_switches)

\* The switch-to-switch loop leaving at the first pair it has to skip.
RECURSIVE ConnectSwitches_break(_, _, _)
ConnectSwitches_break(T, pairs, k) ==
  IF k > Len(pairs) THEN Ret(T, OK)
  ELSE LET r == ConnectAvailable(T, SwitchId(pairs[k][1] + 1), SwitchId(pairs[k][2] + 1))
       IN IF r.res /= OK \/ r.T.connections = T.connections THEN r
          ELSE ConnectSwitches_break(r.T, pairs, k + 1)

\* The switch-to-switch loop of a generator over the index pairs it visits,
\* pairs[k] = <<index of switch1, index of switch2>> counted from 0.
RECURSIVE ConnectSwitches(_, _, _)
ConnectSwitches(T, pairs, k) ==
  IF k > Len(pairs) THEN Ret(T, OK)
  ELSE LET r == ConnectAvailable(T, SwitchId(pairs[k][1] + 1), SwitchId(pairs[k][2] + 1))
       IN IF r.res /= OK THEN r
          ELSE ConnectSwitches(r.T, pairs, k + 1)

\* for i in range(len(switches) - 1): switches[i], switches[i + 1]
LinePairs(num_switches) == [k \in 1..(num_switches - 1) |-> <<k - 1, k>>]

\* for i in range(num_switches): switches[i], switches[(i + 1) % num_switches]
RingPairs(num_switches) == [k \in 1..num_switches |-> <<k - 1, k % num_switches>>]

\* The mesh loop visiting only j = i + 1.
MeshPairs_adjacent(num_switches) == LinePairs(num_switches)

\* for i in range(num_switches): for j in range(i + 1, num_switches)
RECURSIVE MeshFrom(_, _, _)
MeshFrom(i, j, num_switches) ==
  IF i >= num_switches THEN <<>>
  ELSE IF j >= num_switches THEN MeshFrom(i + 1, i + 2, num_switches)
  ELSE <<<<i, j>>>> \o MeshFrom(i, j + 1, num_switches)

MeshPairs(num_switches) == MeshFrom(0, 1, num_switches)

\* The part the three generators share, followed by the switch loop.
Generate(num_switches, num_hosts, rnds, pairs) ==
  LET T0 == CreateSwitches(Topo(<<>>, {}), num_switches)
      T1 == CreateHosts(T0, num_hosts, rnds)
      r == ConnectHosts(T1, num_hosts, num_switches)
  IN IF r.res /= OK THEN r ELSE ConnectSwitches(r.T, pairs, 1)

\* create_ring_network linking the switches without the closing edge.
create_ring_network_open(num_switches, num_hosts, rnds) ==
  Generate(num_switches, num_hosts, rnds, LinePairs(num_switches))

\* create_simple_network linking the last switch back to the first.
create_simple_network_closed(num_switches, num_hosts, rnds) ==
  Generate(num_switches, num_hosts, rnds, RingPairs(num_switches))

create_simple_network(num_switches, num_hosts, rnds) ==
  Generate(num_switches, num_hosts, rnds, LinePairs(num_switches))

create_ring_network(num_switches, num_hosts, rnds) ==
  Generate(num_switches, num_hosts, rnds, RingPairs(num_switches))

create_mesh_network(num_switches, num_hosts, rnds) ==
  Generate(num_switches, num_hosts, rnds, MeshPairs(num_switches))

----------------------------------------------------------------------------
\* Calls on one NetworkTopology object.

Cur == Topo(devices, connections)

Call(op, args, r) ==
  /\ nops < MaxOps
  /\ nops' = nops + 1
  /\ pre' = Cur
  /\ devices' = r.T.devices
  /\ connections' = r.T.connections
  /\ last' = [op |-> op, args |-> args, res |-> r.res]
  /\ UNCHANGED <<collector, cli>>

\* StatsCollector.__init__: nothing collected, no thread, not running.
\* threads lists the threads start_collection has created, caller is the
\* position of the code that calls start_collection and stop_collection,
\* collected counts the samples appended for each port, and stopped is the
\* set of threads for which stop_collection has returned True.
StatsCollector ==
  [running |-> FALSE, collection_thread |-> 0, ports |-> <<>>,
   collected |-> [p \in {1, 2} |-> 0],
   threads |-> <<>>, caller |-> "idle", stopped |-> {}]

\* CommandContext.__init__.  cli holds the context, whether the command loop
\* of CLI.run is still going, and the result of the loop's latest command
\* (an empty success before the first one).
CommandContext ==
  [mode |-> "global", current_interface |-> None, current_vlan |-> None]

Init ==
  /\ devices = <<>>
  /\ connections = {}
  /\ last = [op |-> "init", args |-> <<>>, res |-> OK]
  /\ pre = Topo(<<>>, {})
  /\ nops = 0
  /\ collector = StatsCollector
  /\ cli = [context |-> CommandContext, running |-> TRUE,
            result |-> [success |-> TRUE, message |-> <<>>]]

AddDevice ==
  \E device \in NewDevices :
    Call("add_device", <<device.device_id, device>>, add_device(Cur, device))

RemoveDevice ==
  \E d \in DeviceIds :
    Call("remove_device", <<d>>, remove_device(Cur, d))

GetDevice ==
  \E d \in DeviceIds :
    Call("get_device", <<d>>, get_device(Cur, d))

ConnectDevices ==
  \E d1 \in DeviceIds, i1 \in IfNames, d2 \in DeviceIds, i2 \in IfNames :
    Call("connect_devices", <<d1, i1, d2, i2>>, connect_devices(Cur, d1, i1, d2, i2))

DisconnectDevices ==
  \E d1 \in DeviceIds, i1 \in IfNames, d2 \in DeviceIds, i2 \in IfNames :
    Call("disconnect_devices", <<d1, i1, d2, i2>>, disconnect_devices(Cur, d1, i1, d2, i2))

AssignIpToHost ==
  \E d \in DeviceIds :
    Call("assign_ip_to_host", <<d>>, assign_ip_to_host(Cur, d, "10.0.0.9", "255.255.255.0"))

ConfigureVlan ==
  \E d \in DeviceIds, vlan_id \in {"1", "10"} :
    Call("configure_vlan", <<d, vlan_id, "lab", <<"port2">>>>,
         configure_vlan(Cur, d, vlan_id, "lab", <<"port2">>))

ConfigureStp ==
  \E d \in DeviceIds :
    Call("configure_stp", <<d>>, configure_stp(Cur, d, 4096))

ConfigureRouting ==
  \E d \in DeviceIds :
    Call("configure_routing", <<d, "10.1.0.0/24", "10.0.0.1", 1>>,
         configure_routing(Cur, d, "10.1.0.0/24", "10.0.0.1", 1))

\* The structural operations.
Next ==
  \/ AddDevice
  \/ RemoveDevice
  \/ GetDevice
  \/ ConnectDevices
  \/ DisconnectDevices

Spec == Init /\ [][Next]_vars

\* topology.to_dict(): the call builds its result from reads only and
\* assigns nothing on the topology or its devices.
ToDict ==
  Call("to_dict", <<>>, Ret(Cur, OK))

\* The structural and the configuration operations.
NextCfg ==
  \/ AddDevice
  \/ RemoveDevice
  \/ GetDevice
  \/ ConnectDevices
  \/ DisconnectDevices
  \/ AssignIpToHost
  \/ ConfigureVlan
  \/ ConfigureStp
  \/ ConfigureRouting
  \/ ToDict

SpecCfg == Init /\ [][NextCfg]_vars

\* topology.add_device(Switch(id, None, num_ports, switch_type)); the call
\* records the constructed device and the constructor's arguments.
AddSwitch ==
  \E id \in DeviceIds, num_ports \in 0..MaxPorts, switch_type \in {"l2", "l3"} :
    LET device == Switch(id, "", num_ports, switch_type)
    IN Call("add_device", <<id, device, <<"switch", num_ports, switch_type>>>>,
            add_device(Cur, device))

\* topology.add_device(Host(id, None, ip_address))
AddHost ==
  \E id \in DeviceIds, ip_address \in {"", "10.0.0.5"}, rnd \in RandomDraws :
    LET device == Host(id, "", ip_address, rnd)
    IN Call("add_device", <<id, device, <<"host", ip_address>>>>,
            add_device(Cur, device))

\* topology.get_device(id).add_interface(name)
AddInterface ==
  \E d \in DOMAIN devices, interface_name \in IfNames :
    Call("add_interface", <<d, interface_name>>,
         Ret(SetDevice(Cur, d, add_interface(devices[d], interface_name)), OK))

\* topology.get_device(id).get_available_interface(); the call's result is
\* the interface returned.
GetAvailableInterface ==
  \E d \in DOMAIN devices :
    Call("get_available_interface", <<d>>,
         Ret(Cur, get_available_interface(devices[d])))

\* Devices are constructed, extended, linked and asked for a free interface.
NextDev ==
  /\ nops < MaxDevOps
  /\ \/ AddSwitch
     \/ AddHost
     \/ AddInterface
     \/ GetAvailableInterface
     \/ ConnectDevices
     \/ DisconnectDevices

SpecDev == Init /\ [][NextDev]_vars

\* configure_routing with several destinations and metrics.
ConfigureRoutes ==
  \E d \in DeviceIds, dest_network \in {"10.1.0.0/24", "10.2.0.0/24"}, metric \in {1, 5} :
    Call("configure_routing", <<d, dest_network, "10.0.0.1", metric>>,
         configure_routing(Cur, d, dest_network, "10.0.0.1", metric))

\* Devices come and go and are configured; no links.
NextProps ==
  \/ AddDevice
  \/ RemoveDevice
  \/ AssignIpToHost
  \/ ConfigureVlan
  \/ ConfigureStp
  \/ ConfigureRoutes

SpecProps == Init /\ [][NextProps]_vars

\* t = load_from_file(f) after t.save_to_file(f); when load raises, t is not
\* rebound.
SaveLoad ==
  \E doc \in SavedDocuments(Cur), rnds \in [DeviceIds -> RandomDraws] :
    LET r == load_from_file(doc, rnds)
    IN Call("save_load", <<doc>>, IF r.res = OK THEN r ELSE Ret(Cur, r.res))

\* One sequence listing every element of the set S once.
RECURSIVE Listing(_)
Listing(S) ==
  IF S = {} THEN <<>>
  ELSE LET x == CHOOSE x \in S : TRUE IN <<x>> \o Listing(S \ {x})

Reversed(q) == [k \in 1..Len(q) |-> q[Len(q) + 1 - k]]

\* Two of the documents save_to_file can write for T: the 'connections'
\* list in one iteration order of the set and in the opposite one.
ListedDocuments(T) ==
  LET q == Listing(to_dict(T).connections)
  IN {[devices |-> to_dict(T).devices, connections |-> o] : o \in {q, Reversed(q)}}

\* t = load_from_file(f) after t.save_to_file(f), for the topology t a
\* generator has just returned.
SaveLoadGenerated ==
  /\ nops = 1
  /\ last.op \in {"create_simple_network", "create_ring_network", "create_mesh_network"}
  /\ \E doc \in ListedDocuments(Cur), rnd \in RandomDraws :
       LET r == load_from_file(doc, [id \in DOMAIN devices |-> rnd])
       IN Call("save_load", <<doc>>, IF r.res = OK THEN r ELSE Ret(Cur, r.res))

\* The structural operations, assign_ip_to_host and a save/load round trip.
NextLoad ==
  \/ AddDevice
  \/ RemoveDevice
  \/ ConnectDevices
  \/ DisconnectDevices
  \/ AssignIpToHost
  \/ SaveLoad

SpecLoad == Init /\ [][NextLoad]_vars

\* Devices are constructed, extended and linked, and the topology is saved
\* and loaded.
NextDevLoad ==
  /\ nops < MaxDevOps
  /\ \/ AddSwitch
     \/ AddHost
     \/ AddInterface
     \/ ConnectDevices
     \/ SaveLoad

SpecDevLoad == Init /\ [][NextDevLoad]_vars

\* The 'devices' part of the documents handed to load_from_file.
DocDevices ==
  {to_dict(Topo(devs, {})).devices :
     devs \in {[d \in {"d1"} |-> Switch("d1", "", 2, "l3")],
               [d \in DeviceIds |-> Switch(d, "", 2, "l2")],
               [d \in DeviceIds |-> IF d = "d1" THEN Switch("d1", "", 2, "l2")
                                     ELSE Host("d2", "", "10.0.0.5", <<0, 0, 0>>)]}}

DocRecords ==
  {[device1 |-> d1, interface1 |-> i1, device2 |-> d2, interface2 |-> i2] :
     d1 \in DeviceIds, i1 \in IfNames, d2 \in DeviceIds, i2 \in IfNames}

Documents ==
  {[devices |-> d, connections |-> q] :
     d \in DocDevices, q \in UNION {[1..n -> DocRecords] : n \in 0..MaxDocConns}}

\* t = load_from_file(f) for a document f; when load raises, t stays unbound.
LoadDocument ==
  /\ nops = 0
  /\ \E doc \in Documents, rnds \in [DeviceIds -> RandomDraws] :
       LET r == load_from_file(doc, rnds)
       IN Call("load_from_file", <<doc>>, IF r.res = OK THEN r ELSE Ret(Cur, r.res))

NextDoc == LoadDocument

SpecDoc == Init /\ [][NextDoc]_vars

\* The random draws of the hosts of one generator run.
GenDraws == {[i \in 1..(MaxHosts + 1) |-> r] : r \in RandomDraws}

CreateSimpleNetwork ==
  /\ nops = 0
  /\ \E n \in 1..MaxSwitches, h \in 0..MaxHosts, rnds \in GenDraws :
       Call("create_simple_network", <<n, h>>, create_simple_network(n, h, rnds))

CreateRingNetwork ==
  /\ nops = 0
  /\ \E n \in 1..MaxSwitches, h \in 0..MaxHosts, rnds \in GenDraws :
       Call("create_ring_network", <<n, h>>, create_ring_network(n, h, rnds))

CreateMeshNetwork ==
  /\ nops = 0
  /\ \E n \in 1..MaxSwitches, h \in 0..MaxHosts, rnds \in GenDraws :
       Call("create_mesh_network", <<n, h>>, create_mesh_network(n, h, rnds))

NextGen ==
  \/ CreateSimpleNetwork
  \/ CreateRingNetwork
  \/ CreateMeshNetwork

SpecGen == Init /\ [][NextGen]_vars

\* A generator run followed by a save/load round trip.
NextGenLoad ==
  \/ CreateSimpleNetwork
  \/ CreateRingNetwork
  \/ CreateMeshNetwork
  \/ SaveLoadGenerated

SpecGenLoad == Init /\ [][NextGenLoad]_vars

----------------------------------------------------------------------------
\* Properties

Failed == last.res /= OK

Succeeded(op) == last.op = op /\ last.res = OK

\* The slot of interface i of device d in a device map.
SlotOf(devs, d, i) == devs[d].interfaces[i]

\* Slot <<d, i>> exists in devs and holds the peer reference <<e, j>>.
Points(devs, d, i, e, j) ==
  /\ d \in DOMAIN devs
  /\ i \in DOMAIN devs[d].interfaces
  /\ devs[d].interfaces[i] = <<e, j>>

\* The records of connections for the unordered pair (d, i) - (e, j).
RecordsOf(conns, d, i, e, j) == conns \cap {<<d, i, e, j>>, <<e, j, d, i>>}

\* Some slot of devs holds a peer reference to device d.
Referenced(devs, d) ==
  \E e \in DOMAIN devs : \E j \in DOMAIN devs[e].interfaces :
    devs[e].interfaces[j] /= None /\ devs[e].interfaces[j][1] = d

\* C1: connection records and interface slots agree: every record has both
\* of its slots pointing at each other, and every occupied slot has a record
\* for its pair.
C1_RecordsAgreeWithSlots ==
  /\ \A c \in connections :
        Points(devices, c[1], c[2], c[3], c[4]) /\ Points(devices, c[3], c[4], c[1], c[2])
  /\ \A d \in DOMAIN devices : \A i \in DOMAIN devices[d].interfaces :
        LET conn == devices[d].interfaces[i]
        IN conn /= None => RecordsOf(connections, d, i, conn[1], conn[2]) /= {}

\* C2: after a successful remove_device(id) no connection record names id
\* and no slot of a remaining device refers to id.
C2_RemoveLeavesNoReference ==
  Succeeded("remove_device") =>
    /\ \A c \in connections : c[1] /= last.args[1] /\ c[3] /= last.args[1]
    /\ ~Referenced(devices, last.args[1])

\* C3: every slot is empty or holds one peer reference <<B, ib>> where B is
\* a device of the topology, ib one of its interfaces, and B's slot ib
\* refers back.
C3_SlotsReciprocal ==
  \A d \in DOMAIN devices : \A i \in DOMAIN devices[d].interfaces :
    LET conn == devices[d].interfaces[i]
    IN conn /= None =>
         Len(conn) = 2 /\ Points(devices, conn[1], conn[2], d, i)

\* C3 witness: a disconnect succeeded while another link stays up.
C3_Witness ==
  /\ Succeeded("disconnect_devices")
  /\ \E d \in DOMAIN devices : \E i \in DOMAIN devices[d].interfaces :
        devices[d].interfaces[i] /= None /\ devices[d].interfaces[i][1] /= d

\* C4: connections never holds both <<A, ia, B, ib>> and <<B, ib, A, ia>>.
C4_OneRecordPerPair ==
  \A c \in connections :
    <<c[1], c[2]>> /= <<c[3], c[4]>> => <<c[3], c[4], c[1], c[2]>> \notin connections

\* C5: a successful connect_devices(d1, i1, d2, i2) ends with both slots
\* pointing at each other and exactly one record for the pair.
C5_ConnectPost ==
  Succeeded("connect_devices") =>
    LET a == last.args
    IN /\ Points(devices, a[1], a[2], a[3], a[4])
       /\ Points(devices, a[3], a[4], a[1], a[2])
       /\ Cardinality(RecordsOf(connections, a[1], a[2], a[3], a[4])) = 1

\* C6: a successful disconnect_devices(d1, i1, d2, i2) ends with both slots
\* empty and no record for the pair, in either argument order.
C6_DisconnectPost ==
  Succeeded("disconnect_devices") =>
    LET a == last.args
    IN /\ SlotOf(devices, a[1], a[2]) = None
       /\ SlotOf(devices, a[3], a[4]) = None
       /\ RecordsOf(connections, a[1], a[2], a[3], a[4]) = {}

\* C7: disconnect_devices right after a successful connect_devices with the
\* same arguments succeeds and yields the topology from before the connect.
C7_ConnectDisconnectRoundTrip ==
  [][(Succeeded("connect_devices") /\ last'.op = "disconnect_devices" /\ last'.args = last.args)
       => (last'.res = OK /\ devices' = pre.devices /\ connections' = pre.connections)]_vars

\* C8: a failed call leaves devices, slots, records and properties as they
\* were before the call.
C8_FailureChangesNothing ==
  Failed => Cur = pre

\* connect_devices(a) must fail on topology T.
ConnectMustFail(T, a) ==
  \/ a[1] \notin DOMAIN T.devices
  \/ a[3] \notin DOMAIN T.devices
  \/ a[2] \notin DOMAIN T.devices[a[1]].interfaces
  \/ a[4] \notin DOMAIN T.devices[a[3]].interfaces
  \/ SlotOf(T.devices, a[1], a[2]) /= None
  \/ SlotOf(T.devices, a[3], a[4]) /= None

\* C9: connect_devices fails exactly when a device is absent, an interface
\* is missing or a slot is occupied, and then no slot and no record changes
\* and to_dict is the same before and after.
C9_ConnectFailure ==
  last.op = "connect_devices" =>
    /\ Failed <=> ConnectMustFail(pre, last.args)
    /\ Failed => /\ devices = pre.devices
                 /\ connections = pre.connections
                 /\ to_dict(Cur) = to_dict(pre)

\* C9 witness: connect_devices failed on an occupied slot of existing
\* interfaces of existing devices.
C9_Witness ==
  /\ last.op = "connect_devices"
  /\ Failed
  /\ last.args[1] \in DOMAIN devices
  /\ last.args[3] \in DOMAIN devices
  /\ last.args[2] \in DOMAIN devices[last.args[1]].interfaces
  /\ last.args[4] \in DOMAIN devices[last.args[3]].interfaces
  /\ SlotOf(devices, last.args[1], last.args[2]) = None
  /\ SlotOf(devices, last.args[3], last.args[4]) /= None

\* C10: remove_device(id) succeeds whenever id is in the topology, and
\* afterwards id is not in devices.
C10_RemovePresentSucceeds ==
  (last.op = "remove_device" /\ last.args[1] \in DOMAIN pre.devices) =>
    (last.res = OK /\ last.args[1] \notin DOMAIN devices)

\* disconnect_devices(a) must fail on topology T: a device or interface is
\* missing, or the two slots do not hold each other.
DisconnectMustFail(T, a) ==
  \/ a[1] \notin DOMAIN T.devices
  \/ a[3] \notin DOMAIN T.devices
  \/ a[2] \notin DOMAIN T.devices[a[1]].interfaces
  \/ a[4] \notin DOMAIN T.devices[a[3]].interfaces
  \/ SlotOf(T.devices, a[1], a[2]) /= <<a[3], a[4]>>
  \/ SlotOf(T.devices, a[3], a[4]) /= <<a[1], a[2]>>

\* C11: disconnect_devices fails exactly when a device or interface is
\* missing or the two interfaces are not connected to each other, and a
\* failing call changes no slot and no record.
C11_DisconnectFailure ==
  last.op = "disconnect_devices" =>
    /\ Failed <=> DisconnectMustFail(pre, last.args)
    /\ Failed => devices = pre.devices /\ connections = pre.connections

\* C11 witness: disconnect_devices failed on two occupied slots of the named
\* devices that hold other peers.
C11_Witness ==
  /\ last.op = "disconnect_devices"
  /\ Failed
  /\ last.args[1] \in DOMAIN devices
  /\ last.args[3] \in DOMAIN devices
  /\ last.args[2] \in DOMAIN devices[last.args[1]].interfaces
  /\ last.args[4] \in DOMAIN devices[last.args[3]].interfaces
  /\ SlotOf(devices, last.args[1], last.args[2]) /= None
  /\ SlotOf(devices, last.args[3], last.args[4]) /= None

\* C12: add_device(d) fails exactly when d.id is already a key of devices and
\* then keeps the stored device; otherwise it stores d under d.id and leaves
\* the other devices alone.
C12_AddDevice ==
  last.op = "add_device" =>
    LET id == last.args[1]
    IN /\ Failed <=> id \in DOMAIN pre.devices
       /\ Failed => devices = pre.devices
       /\ ~Failed => /\ DOMAIN devices = DOMAIN pre.devices \cup {id}
                     /\ devices[id] = last.args[2]
                     /\ \A e \in DOMAIN pre.devices : devices[e] = pre.devices[e]

\* C12 witness: add_device of a device whose id is taken by a different
\* device failed.
C12_Witness ==
  /\ last.op = "add_device"
  /\ Failed
  /\ devices[last.args[1]] /= last.args[2]

\* The unordered endpoint pairs of a set of connection records.
UnorderedPairs(conns) == {{<<c[1], c[2]>>, <<c[3], c[4]>>} : c \in conns}

\* C13: loading the saved form of a topology succeeds and gives the same
\* device ids, the same properties of every device and the same connections
\* as unordered pairs.
C13_SaveLoadRoundTrip ==
  last.op = "save_load" =>
    /\ last.res = OK
    /\ DOMAIN devices = DOMAIN pre.devices
    /\ \A d \in DOMAIN devices : devices[d].properties = pre.devices[d].properties
    /\ UnorderedPairs(connections) = UnorderedPairs(pre.connections)

\* C14: every loaded device has exactly the property map of its document
\* entry.
C14_LoadedPropertiesVerbatim ==
  Succeeded("save_load") =>
    \A d \in DOMAIN last.args[1].devices :
      devices[d].properties = last.args[1].devices[d].properties

\* The two endpoints of a document's connection record.
DocEnds(c) == {<<c.device1, c.interface1>>, <<c.device2, c.interface2>>}

\* The endpoints the device entries of a document declare.
DocDeclared(doc) ==
  {e \in (DOMAIN doc.devices) \X IfNames :
     \E k \in 1..Len(doc.devices[e[1]].interfaces) :
       doc.devices[e[1]].interfaces[k] = e[2]}

\* Some record of the document names a missing device or interface, or an
\* endpoint an earlier record has used (a repeated pair included).
DocMustFail(doc) ==
  \E k \in 1..Len(doc.connections) :
    \/ ~(DocEnds(doc.connections[k]) \subseteq DocDeclared(doc))
    \/ \E j \in 1..(k - 1) :
         DocEnds(doc.connections[j]) \cap DocEnds(doc.connections[k]) /= {}

\* C15: load_from_file raises connect_devices' error exactly for the
\* documents with such a record and then returns no topology; otherwise the
\* loaded topology holds one record per document record.
C15_LoadReplaysConnections ==
  last.op = "load_from_file" =>
    LET doc == last.args[1]
    IN /\ last.res = ValueError <=> DocMustFail(doc)
       /\ last.res /= ValueError => last.res = OK
       /\ Failed => devices = pre.devices /\ connections = pre.connections
       /\ ~Failed => /\ DOMAIN devices = DOMAIN doc.devices
                     /\ connections =
                          {<<doc.connections[k].device1, doc.connections[k].interface1,
                             doc.connections[k].device2, doc.connections[k].interface2>> :
                             k \in 1..Len(doc.connections)}
                     /\ Cardinality(connections) = Len(doc.connections)

\* C15 witness: load_from_file failed on a document whose two records are
\* one pair of existing endpoints in both orders.
C15_Witness ==
  /\ last.op = "load_from_file"
  /\ Failed
  /\ Len(last.args[1].connections) = 2
  /\ DocEnds(last.args[1].connections[1]) \subseteq DocDeclared(last.args[1])
  /\ DocEnds(last.args[1].connections[1]) = DocEnds(last.args[1].connections[2])
  /\ last.args[1].connections[1] /= last.args[1].connections[2]

\* A generator returned; its arguments.
Generated(op) == last.op = op /\ last.res = OK

GenSwitches == last.args[1]

GenHosts == last.args[2]

IsSwitch(d) == d \in DOMAIN devices /\ devices[d].device_type = "switch"

\* The connection records between two switches.
SwitchLinks == {c \in connections : IsSwitch(c[1]) /\ IsSwitch(c[3])}

\* The records linking switch index a with switch index b (from 0).
LinksBetween(a, b) ==
  {c \in connections : {c[1], c[3]} = {SwitchId(a + 1), SwitchId(b + 1)}}

\* The occupied slots of device d whose peer is a switch.
SwitchFacing(d) ==
  {i \in DOMAIN devices[d].interfaces :
     devices[d].interfaces[i] /= None /\ IsSwitch(devices[d].interfaces[i][1])}

\* min(i // max(1, h // n), n - 1): the switch index of host index i.
ExpectedSwitch(i, n, h) ==
  LET hps == IF h \div n >= 1 THEN h \div n ELSE 1
  IN IF i \div hps <= n - 1 THEN i \div hps ELSE n - 1

\* How many hosts are placed on switch index k.
HostsAssigned(n, h, k) ==
  Cardinality({i \in 0..(h - 1) : ExpectedSwitch(i, n, h) = k})

\* Switch index k is linked exactly to its two ring neighbours.
RingAt(n, k) ==
  /\ Cardinality(SwitchFacing(SwitchId(k + 1))) = 2
  /\ {devices[SwitchId(k + 1)].interfaces[i][1] : i \in SwitchFacing(SwitchId(k + 1))}
       = {SwitchId(((k + n - 1) % n) + 1), SwitchId(((k + 1) % n) + 1)}

IsRing(n) ==
  /\ Cardinality(SwitchLinks) = n
  /\ \A k \in 0..(n - 1) : RingAt(n, k)

\* C16 as stated: for every numSwitches >= 3 and numHosts >= 0 the ring has
\* numSwitches switch-to-switch connections, two on every switch.
C16_RingAlways ==
  (Generated("create_ring_network") /\ GenSwitches >= 3) => IsRing(GenSwitches)

\* C16 amended: the same when no switch is assigned more than
\* DefaultNumPorts - 2 hosts, so that two ports of every switch stay free.
C16_RingWithFreePorts ==
  (/\ Generated("create_ring_network")
   /\ GenSwitches >= 3
   /\ \A k \in 0..(GenSwitches - 1) :
        HostsAssigned(GenSwitches, GenHosts, k) <= DefaultNumPorts - 2)
    => IsRing(GenSwitches)

\* C16 witness: a ring of three or more switches, one of them with exactly
\* two ports left after its hosts.
C16_Witness ==
  /\ Generated("create_ring_network")
  /\ GenSwitches >= 3
  /\ \A k \in 0..(GenSwitches - 1) :
       HostsAssigned(GenSwitches, GenHosts, k) <= DefaultNumPorts - 2
  /\ \E k \in 0..(GenSwitches - 1) :
       HostsAssigned(GenSwitches, GenHosts, k) = DefaultNumPorts - 2

\* C17: a ring of one switch has no switch-to-switch connection and a ring
\* of two switches has exactly one.
C17_SmallRing ==
  (Generated("create_ring_network") /\ GenSwitches <= 2) =>
    /\ GenSwitches = 1 => SwitchLinks = {}
    /\ GenSwitches = 2 => Cardinality(SwitchLinks) = 1

\* The records that name host index i.
HostRecords(i) == {c \in connections : c[1] = HostId(i + 1) \/ c[3] = HostId(i + 1)}

\* Host index i is connected by eth0 to switch index k and to nothing else.
HostOn(i, k) ==
  /\ devices[HostId(i + 1)].interfaces["eth0"] /= None
  /\ devices[HostId(i + 1)].interfaces["eth0"][1] = SwitchId(k + 1)
  /\ Cardinality(HostRecords(i)) = 1
  /\ \A c \in HostRecords(i) : {c[1], c[3]} = {HostId(i + 1), SwitchId(k + 1)}

HostUnconnected(i) ==
  /\ devices[HostId(i + 1)].interfaces["eth0"] = None
  /\ HostRecords(i) = {}

GeneratedAny ==
  \/ Generated("create_simple_network")
  \/ Generated("create_ring_network")
  \/ Generated("create_mesh_network")

\* C18 as stated: every generator connects every host i to switch
\* min(i // hostsPerSwitch, numSwitches - 1) and to nothing else.
C18_EveryHostConnected ==
  GeneratedAny =>
    \A i \in 0..(GenHosts - 1) : HostOn(i, ExpectedSwitch(i, GenSwitches, GenHosts))

\* C18 amended: host i is connected to that switch and to nothing else when
\* fewer than DefaultNumPorts earlier hosts are placed on the same switch,
\* and is left unconnected otherwise.
C18_HostsConnectedWhilePortsLast ==
  GeneratedAny =>
    \A i \in 0..(GenHosts - 1) :
      LET k == ExpectedSwitch(i, GenSwitches, GenHosts)
          earlier == {j \in 0..(i - 1) : ExpectedSwitch(j, GenSwitches, GenHosts) = k}
      IN IF Cardinality(earlier) < DefaultNumPorts
         THEN HostOn(i, k)
         ELSE HostUnconnected(i)

\* C18 witness: a generator run with two or more switches whose last switch
\* takes the remainder hosts and has more hosts than ports.
C18_Witness ==
  /\ GeneratedAny
  /\ GenSwitches >= 2
  /\ HostsAssigned(GenSwitches, GenHosts, GenSwitches - 1) > DefaultNumPorts
  /\ HostOn(0, 0)
  /\ HostUnconnected(GenHosts - 1)

\* C19: create_simple_network, when every switch has free ports for its
\* line links, connects switch[i] and switch[i+1] for every i and no other
\* pair of switches; create_simple_network(2, 4) gives 2 switches, 4 hosts,
\* 2 hosts on each switch and 1 switch-to-switch connection.
C19_SimpleLine ==
  Generated("create_simple_network") =>
    LET n == GenSwitches
        h == GenHosts
        need(k) == (IF k > 0 THEN 1 ELSE 0) + (IF k < n - 1 THEN 1 ELSE 0)
    IN /\ (\A k \in 0..(n - 1) : HostsAssigned(n, h, k) + need(k) <= DefaultNumPorts) =>
            /\ Cardinality(SwitchLinks) = n - 1
            /\ \A k \in 0..(n - 2) : Cardinality(LinksBetween(k, k + 1)) = 1
       /\ (n = 2 /\ h = 4) =>
            /\ Cardinality({d \in DOMAIN devices : IsSwitch(d)}) = 2
            /\ Cardinality({d \in DOMAIN devices : ~IsSwitch(d)}) = 4
            /\ HostOn(0, 0) /\ HostOn(1, 0) /\ HostOn(2, 1) /\ HostOn(3, 1)
            /\ Cardinality(SwitchLinks) = 1

\* C19 witness: a line of three or more switches, an inner one with exactly
\* two ports left after its hosts.
C19_Witness ==
  /\ Generated("create_simple_network")
  /\ GenSwitches >= 3
  /\ \A k \in 0..(GenSwitches - 1) :
       HostsAssigned(GenSwitches, GenHosts, k) <= DefaultNumPorts - 2
  /\ HostsAssigned(GenSwitches, GenHosts, 1) = DefaultNumPorts - 2

\* C20: create_mesh_network, when every switch has free ports for its
\* hosts and its n-1 peers, has n*(n-1)/2 switch-to-switch connections, one
\* for each unordered pair of distinct switches.
C20_FullMesh ==
  (/\ Generated("create_mesh_network")
   /\ \A k \in 0..(GenSwitches - 1) :
        HostsAssigned(GenSwitches, GenHosts, k) + GenSwitches - 1 <= DefaultNumPorts)
    => /\ 2 * Cardinality(SwitchLinks) = GenSwitches * (GenSwitches - 1)
       /\ \A a \in 0..(GenSwitches - 1) : \A b \in (a + 1)..(GenSwitches - 1) :
            Cardinality(LinksBetween(a, b)) = 1

\* C20 witness: a mesh of three or more switches, one of them with exactly
\* n-1 ports left after its hosts.
C20_Witness ==
  /\ Generated("create_mesh_network")
  /\ GenSwitches >= 3
  /\ \A k \in 0..(GenSwitches - 1) :
       HostsAssigned(GenSwitches, GenHosts, k) + GenSwitches - 1 <= DefaultNumPorts
  /\ \E k \in 0..(GenSwitches - 1) :
       HostsAssigned(GenSwitches, GenHosts, k) + GenSwitches - 1 = DefaultNumPorts

\* The mesh loop visits pair <<a, b>> before pair <<c, d>>.
VisitedBefore(a, b, c, d) == a < c \/ (a = c /\ b < d)

\* The empty interfaces of switch index s when the mesh loop visits the pair
\* <<a, b>>: its ports less its hosts and less the links made for the pairs
\* visited earlier (the generator never removes a connection).
FreeAtVisit(s, a, b) ==
  LET hostlinks == {c \in connections :
                      \/ c[1] = SwitchId(s + 1) /\ ~IsSwitch(c[3])
                      \/ c[3] = SwitchId(s + 1) /\ ~IsSwitch(c[1])}
      earlier == {t \in 0..(GenSwitches - 1) \ {s} :
                    /\ IF s < t THEN VisitedBefore(s, t, a, b) ELSE VisitedBefore(t, s, a, b)
                    /\ LinksBetween(s, t) /= {}}
  IN DefaultNumPorts - Cardinality(hostlinks) - Cardinality(earlier)

\* C21: create_mesh_network raises no error; a pair of switches i < j is left
\* unconnected exactly when one of the two has no empty interface at the
\* moment the pair is visited, the pairs after a skipped one are still
\* connected when they can be, and the result satisfies the slot/record
\* invariants.
C21_MeshSkipsOnlyFullSwitches ==
  last.op = "create_mesh_network" =>
    /\ last.res = OK
    /\ \A a \in 0..(GenSwitches - 1) : \A b \in (a + 1)..(GenSwitches - 1) :
         (LinksBetween(a, b) = {}) <=> (FreeAtVisit(a, a, b) <= 0 \/ FreeAtVisit(b, a, b) <= 0)
    /\ C1_RecordsAgreeWithSlots
    /\ C3_SlotsReciprocal
    /\ C4_OneRecordPerPair

\* C21 witness: a mesh in which a pair was skipped and a pair visited after
\* it was connected.
C21_Witness ==
  /\ Generated("create_mesh_network")
  /\ \E a, b, c, d \in 0..(GenSwitches - 1) :
       /\ a < b /\ c < d /\ VisitedBefore(a, b, c, d)
       /\ LinksBetween(a, b) = {}
       /\ LinksBetween(c, d) /= {}

\* The draws under which every MAC address ends in 00:00:00.
ZeroDraws == [i \in 1..(MaxHosts + 1) |-> <<0, 0, 0>>]

\* A second invocation of the generator last called, with the same
\* arguments and the random draws rnds.
Regenerated(rnds) ==
  IF last.op = "create_simple_network"
  THEN create_simple_network(GenSwitches, GenHosts, rnds).T
  ELSE IF last.op = "create_ring_network"
  THEN create_ring_network(GenSwitches, GenHosts, rnds).T
  ELSE create_mesh_network(GenSwitches, GenHosts, rnds).T

\* Topology T has the devices, slots and records of the current one, and
\* the same value for every property not named in skip.
SameTopology(T, skip) ==
  /\ DOMAIN T.devices = DOMAIN devices
  /\ T.connections = connections
  /\ \A d \in DOMAIN devices :
       /\ T.devices[d].device_type = devices[d].device_type
       /\ T.devices[d].name = devices[d].name
       /\ T.devices[d].ifnames = devices[d].ifnames
       /\ \A k \in 1..Len(devices[d].ifnames) :
            T.devices[d].interfaces[devices[d].ifnames[k]]
              = devices[d].interfaces[devices[d].ifnames[k]]
       /\ DOMAIN T.devices[d].properties = DOMAIN devices[d].properties
       /\ \A key \in DOMAIN devices[d].properties \ skip :
            T.devices[d].properties[key] = devices[d].properties[key]

\* C22 as stated: a second invocation of a generator with the same
\* arguments returns the same devices, slots, records and property values.
C22_Deterministic ==
  GeneratedAny => SameTopology(Regenerated(ZeroDraws), {})

\* C22 amended: a second invocation returns the same devices, slots,
\* records and property values except the hosts' mac_address.
C22_DeterministicButMac ==
  GeneratedAny => SameTopology(Regenerated(ZeroDraws), {"mac_address"})

\* C22 witness: a generator returned hosts whose random draws differ from
\* those of the second invocation.
C22_Witness ==
  /\ GeneratedAny
  /\ GenSwitches >= 2
  /\ GenHosts >= 2
  /\ devices[HostId(1)].properties["mac_address"] /= generate_mac_address(<<0, 0, 0>>)

ConfigureOps == {"assign_ip_to_host", "configure_vlan", "configure_stp", "configure_routing"}

\* Device dev is of the wrong kind for the configuration call op.
WrongKind(op, dev) ==
  IF op = "assign_ip_to_host" THEN dev.device_type /= "host"
  ELSE IF op \in {"configure_vlan", "configure_stp"} THEN dev.device_type /= "switch"
  ELSE \/ dev.device_type /= "switch"
       \/ "switch_type" \notin DOMAIN dev.properties
       \/ dev.properties["switch_type"] /= "l3"

\* C23: a configuration call on a device of the wrong kind fails and leaves
\* every device, with all its properties, as it was: assign_ip_to_host on a
\* non-host, configure_vlan and configure_stp on a non-switch,
\* configure_routing on anything but an l3 switch.
C23_WrongKindFails ==
  (/\ last.op \in ConfigureOps
   /\ last.args[1] \in DOMAIN pre.devices
   /\ WrongKind(last.op, pre.devices[last.args[1]]))
    => /\ Failed
       /\ devices = pre.devices
       /\ connections = pre.connections

\* C23 witness: configure_routing was refused on an l2 switch that has been
\* configured before.
C23_Witness ==
  /\ last.op = "configure_routing"
  /\ Failed
  /\ last.args[1] \in DOMAIN devices
  /\ devices[last.args[1]].device_type = "switch"
  /\ devices[last.args[1]].properties["switch_type"] = "l2"
  /\ "stp_priority" \in DOMAIN devices[last.args[1]].properties

\* The entries of table `after` are those of `before` except that key holds
\* entry.
OnlyEntrySet(before, after, key, entry) ==
  /\ DOMAIN after = DOMAIN before \cup {key}
  /\ after[key] = entry
  /\ \A k \in DOMAIN before \ {key} : after[k] = before[k]

\* C24: a successful configure_vlan sets the switch's entry for vlanId to
\* {name, ports} and leaves its other VLAN entries unchanged; a successful
\* configure_routing sets the entry for destNetwork and keeps the other
\* routes.
C24_ConfigureMergesOneEntry ==
  /\ Succeeded("configure_vlan") =>
       OnlyEntrySet(pre.devices[last.args[1]].properties["vlans"],
                    devices[last.args[1]].properties["vlans"],
                    last.args[2],
                    [name |-> last.args[3], ports |-> last.args[4]])
  /\ Succeeded("configure_routing") =>
       OnlyEntrySet(pre.devices[last.args[1]].properties["routing_table"],
                    devices[last.args[1]].properties["routing_table"],
                    last.args[2],
                    [next_hop |-> last.args[3], metric |-> last.args[4]])

\* C24 witness: configure_vlan overwrote the seeded VLAN "1" of a switch
\* that has another VLAN and two routes.
C24_Witness ==
  /\ Succeeded("configure_vlan")
  /\ last.args[2] = "1"
  /\ pre.devices[last.args[1]].properties["vlans"]["1"].name = "default"
  /\ "10" \in DOMAIN pre.devices[last.args[1]].properties["vlans"]
  /\ "routing_table" \in DOMAIN devices[last.args[1]].properties
  /\ Cardinality(DOMAIN devices[last.args[1]].properties["routing_table"]) = 2

\* The positions of the empty slots of dev, in insertion order.
EmptyPositions(dev) ==
  {k \in 1..Len(dev.ifnames) : dev.interfaces[dev.ifnames[k]] = None}

\* The value returned by the last call, a get_available_interface, is the
\* first empty interface of the device, or none when no slot is empty.
ReturnedFirstEmpty ==
  LET dev == devices[last.args[1]]
  IN /\ (last.res = NoInterface) <=> (EmptyPositions(dev) = {})
     /\ EmptyPositions(dev) /= {} =>
          \E k \in EmptyPositions(dev) :
            /\ last.res = dev.ifnames[k]
            /\ \A j \in EmptyPositions(dev) : k <= j

\* Interface i of device d is the first empty one once it has been freed.
FirstOnceFreed(d, i) ==
  \A k \in 1..Len(devices[d].ifnames) :
    devices[d].ifnames[k] = i =>
      \A j \in 1..(k - 1) : devices[d].interfaces[devices[d].ifnames[j]] /= None

\* C25: get_available_interface returns the first interface in insertion
\* order whose slot is empty, and none exactly when every slot is occupied;
\* asked right after a disconnect freed an interface that has no empty
\* interface before it, it returns that interface.
C25_FirstEmptyInterface ==
  [][last'.op = "get_available_interface" =>
       /\ ReturnedFirstEmpty'
       /\ (Succeeded("disconnect_devices") /\ last'.args[1] = last.args[1]
              /\ FirstOnceFreed(last.args[1], last.args[2]))
            => last'.res = last.args[2]
       /\ (Succeeded("disconnect_devices") /\ last'.args[1] = last.args[3]
              /\ FirstOnceFreed(last.args[3], last.args[4]))
            => last'.res = last.args[4]]_vars

\* C25 witness: get_available_interface returned an interface that comes
\* before an occupied one.
C25_Witness ==
  /\ last.op = "get_available_interface"
  /\ last.res /= NoInterface
  /\ \E k \in 1..Len(devices[last.args[1]].ifnames) :
       /\ devices[last.args[1]].ifnames[k] = last.res
       /\ \E j \in (k + 1)..Len(devices[last.args[1]].ifnames) :
            devices[last.args[1]].interfaces[devices[last.args[1]].ifnames[j]] /= None

\* C26: add_interface(name) on a device that has the name changes nothing,
\* neither the slot's peer reference nor the interface order; on a device
\* that does not have it, it appends one empty slot and changes nothing
\* else.
C26_AddInterfaceIdempotent ==
  Succeeded("add_interface") =>
    LET d == last.args[1]
        interface_name == last.args[2]
        before == pre.devices[d]
        after == devices[d]
    IN /\ connections = pre.connections
       /\ DOMAIN devices = DOMAIN pre.devices
       /\ \A e \in DOMAIN devices \ {d} : devices[e] = pre.devices[e]
       /\ after.properties = before.properties
       /\ \A i \in DOMAIN before.interfaces : after.interfaces[i] = before.interfaces[i]
       /\ IF interface_name \in DOMAIN before.interfaces
          THEN /\ after.ifnames = before.ifnames
               /\ DOMAIN after.interfaces = DOMAIN before.interfaces
          ELSE /\ after.ifnames = Append(before.ifnames, interface_name)
               /\ DOMAIN after.interfaces = DOMAIN before.interfaces \cup {interface_name}
               /\ after.interfaces[interface_name] = None

\* C26 witness: add_interface was called with the name of an occupied slot.
C26_Witness ==
  /\ Succeeded("add_interface")
  /\ last.args[2] \in DOMAIN pre.devices[last.args[1]].interfaces
  /\ pre.devices[last.args[1]].interfaces[last.args[2]] /= None

\* The last call constructed a device of this kind.
Constructed(kind) ==
  last.op = "add_device" /\ Len(last.args) = 3 /\ last.args[3][1] = kind

PortNames == <<"port1", "port2", "port3", "port4">>

\* C27: a newly constructed Switch(id, name, numPorts, switchType) has the
\* interfaces port1..portN in that order, all empty, a vlans property whose
\* only entry is VLAN "1" listing all N ports, and the empty properties
\* routing_table and ip_interfaces if and only if switchType is l3.
C27_NewSwitch ==
  Constructed("switch") =>
    LET dev == last.args[2]
        num_ports == last.args[3][2]
        switch_type == last.args[3][3]
    IN /\ dev.ifnames = SubSeq(PortNames, 1, num_ports)
       /\ DOMAIN dev.interfaces = {PortNames[k] : k \in 1..num_ports}
       /\ \A i \in DOMAIN dev.interfaces : dev.interfaces[i] = None
       /\ DOMAIN dev.properties["vlans"] = {"1"}
       /\ dev.properties["vlans"]["1"].ports = SubSeq(PortNames, 1, num_ports)
       /\ ("routing_table" \in DOMAIN dev.properties) <=> (switch_type = "l3")
       /\ ("ip_interfaces" \in DOMAIN dev.properties) <=> (switch_type = "l3")
       /\ switch_type = "l3" =>
            /\ DOMAIN dev.properties["routing_table"] = {}
            /\ DOMAIN dev.properties["ip_interfaces"] = {}
       /\ last.res = OK => devices[last.args[1]] = dev

\* C27 witness: an l2 switch with two or more ports was constructed and
\* added.
C27_Witness ==
  /\ Constructed("switch")
  /\ last.res = OK
  /\ last.args[3][2] >= 2
  /\ last.args[3][3] = "l2"

HexChars ==
  {"0", "1", "2", "3", "4", "5", "6", "7", "8", "9",
   "a", "b", "c", "d", "e", "f", "A", "B", "C", "D", "E", "F"}

\* The character sequence mac has the form 02:00:00:XX:XX:XX.
MacPattern(mac) ==
  /\ Len(mac) = 17
  /\ SubSeq(mac, 1, 8) = <<"0", "2", ":", "0", "0", ":", "0", "0">>
  /\ \A k \in {9, 12, 15} : mac[k] = ":"
  /\ \A k \in {10, 11, 13, 14, 16, 17} : mac[k] \in HexChars

\* C28: a newly constructed Host has exactly one interface, eth0, empty;
\* with a non-empty ip it has ip_address equal to ip and a mac_address of
\* the form 02:00:00:XX:XX:XX, and without one it has neither property.
C28_NewHost ==
  Constructed("host") =>
    LET dev == last.args[2]
        ip_address == last.args[3][2]
    IN /\ dev.ifnames = <<"eth0">>
       /\ DOMAIN dev.interfaces = {"eth0"}
       /\ dev.interfaces["eth0"] = None
       /\ IF ip_address /= ""
          THEN /\ DOMAIN dev.properties = {"ip_address", "mac_address"}
               /\ dev.properties["ip_address"] = ip_address
               /\ MacPattern(dev.properties["mac_address"])
          ELSE DOMAIN dev.properties = {}
       /\ last.res = OK => devices[last.args[1]] = dev

\* C28 witness: a host was constructed with an ip and a random octet below
\* 16, and added.
C28_Witness ==
  /\ Constructed("host")
  /\ last.res = OK
  /\ last.args[3][2] /= ""
  /\ last.args[2].properties["mac_address"][10] = "0"

\* C29: no interface slot holds a peer reference to itself.
C29_NoSelfReference ==
  \A d \in DOMAIN devices : \A i \in DOMAIN devices[d].interfaces :
    devices[d].interfaces[i] /= <<d, i>>

\* C30: a successful connect_devices or disconnect_devices changes only the
\* two named slots and the record of that pair: the device set, every other
\* slot, every other record and all properties stay as they were.
C30_LinkFrame ==
  (Succeeded("connect_devices") \/ Succeeded("disconnect_devices")) =>
    LET a == last.args
        named == {<<a[1], a[2]>>, <<a[3], a[4]>>}
        pair == {<<a[1], a[2], a[3], a[4]>>, <<a[3], a[4], a[1], a[2]>>}
    IN /\ DOMAIN devices = DOMAIN pre.devices
       /\ connections \ pair = pre.connections \ pair
       /\ \A d \in DOMAIN devices :
            /\ devices[d].device_type = pre.devices[d].device_type
            /\ devices[d].name = pre.devices[d].name
            /\ devices[d].ifnames = pre.devices[d].ifnames
            /\ devices[d].properties = pre.devices[d].properties
            /\ DOMAIN devices[d].interfaces = DOMAIN pre.devices[d].interfaces
            /\ \A i \in DOMAIN devices[d].interfaces :
                 <<d, i>> \notin named =>
                   devices[d].interfaces[i] = pre.devices[d].interfaces[i]

\* C30 witness: a link was taken down while another link and its record
\* stay.
C30_Witness ==
  /\ Succeeded("disconnect_devices")
  /\ \E c \in connections :
       /\ c \notin {<<last.args[1], last.args[2], last.args[3], last.args[4]>>,
                     <<last.args[3], last.args[4], last.args[1], last.args[2]>>}
       /\ devices[c[1]].interfaces[c[2]] = <<c[3], c[4]>>
       /\ c[1] = last.args[1] \/ c[3] = last.args[1]

\* The calls that are not meant to touch links.
LinkFreeOps == {"add_device", "get_device", "to_dict"} \cup ConfigureOps

\* C31: add_device, get_device, assign_ip_to_host, configure_vlan,
\* configure_stp, configure_routing and to_dict change no interface slot and
\* no connection record, and a configuration call changes the properties of
\* the named device only.
C31_LinkFreeFrame ==
  last.op \in LinkFreeOps =>
    /\ connections = pre.connections
    /\ \A d \in DOMAIN pre.devices :
         /\ d \in DOMAIN devices
         /\ devices[d].ifnames = pre.devices[d].ifnames
         /\ devices[d].interfaces = pre.devices[d].interfaces
         /\ (last.op \in ConfigureOps /\ d /= last.args[1]) =>
              devices[d].properties = pre.devices[d].properties

\* C31 witness: configure_stp succeeded on one of two linked switches.
C31_Witness ==
  /\ Succeeded("configure_stp")
  /\ connections /= {}
  /\ \E d \in DOMAIN devices :
       /\ d /= last.args[1]
       /\ devices[d].device_type = "switch"
       /\ devices[d].interfaces["port1"] /= None
       /\ devices[d].interfaces["port1"][1] = last.args[1]

GeneratorOps == {"create_simple_network", "create_ring_network", "create_mesh_network"}

\* C32: each generator returns without raising, for every numSwitches >= 1
\* and numHosts >= 0; the result holds exactly numSwitches switches and
\* numHosts hosts and satisfies the three topology invariants, also when
\* switches run out of ports.
C32_GeneratorsTotal ==
  last.op \in GeneratorOps =>
    /\ last.res = OK
    /\ Cardinality({d \in DOMAIN devices : devices[d].device_type = "switch"}) = GenSwitches
    /\ Cardinality({d \in DOMAIN devices : devices[d].device_type = "host"}) = GenHosts
    /\ Cardinality(DOMAIN devices) = GenSwitches + GenHosts
    /\ C3_SlotsReciprocal
    /\ C4_OneRecordPerPair
    /\ C1_RecordsAgreeWithSlots

\* C32 witness: a ring of three or more switches that ran out of ports: a
\* ring edge is missing and a host is unconnected.
C32_Witness ==
  /\ Generated("create_ring_network")
  /\ GenSwitches >= 3
  /\ Cardinality(SwitchLinks) < GenSwitches
  /\ \E i \in 0..(GenHosts - 1) : HostUnconnected(i)

\* C33: saving and loading a topology returned by a generator reproduces
\* the device ids, the interface names of every device, the property values
\* including each host's mac_address, and the connection set as unordered
\* pairs.
C33_GeneratedRoundTrip ==
  last.op = "save_load" =>
    /\ last.res = OK
    /\ DOMAIN devices = DOMAIN pre.devices
    /\ \A d \in DOMAIN pre.devices :
         /\ devices[d].ifnames = pre.devices[d].ifnames
         /\ DOMAIN devices[d].interfaces = DOMAIN pre.devices[d].interfaces
         /\ DOMAIN devices[d].properties = DOMAIN pre.devices[d].properties
         /\ \A key \in DOMAIN pre.devices[d].properties :
              devices[d].properties[key] = pre.devices[d].properties[key]
    /\ UnorderedPairs(connections) = UnorderedPairs(pre.connections)

\* C33 witness: a generated topology with hosts and linked switches was
\* saved and loaded.
C33_Witness ==
  /\ Succeeded("save_load")
  /\ \E d \in DOMAIN pre.devices : "mac_address" \in DOMAIN pre.devices[d].properties
  /\ \E c \in pre.connections :
       /\ pre.devices[c[1]].device_type = "switch"
       /\ pre.devices[c[3]].device_type = "switch"
       /\ c[1] /= c[3]

\* C34: a loaded device has the interface names of the 'interfaces' list of
\* its document entry, in the same order, so loading a document written by
\* save_to_file finds every interface its connection records name.
C34_LoadedInterfaceNames ==
  last.op = "save_load" =>
    /\ last.res = OK
    /\ \A d \in DOMAIN last.args[1].devices :
         devices[d].ifnames = last.args[1].devices[d].interfaces

(***************************************************************************)
(* python/api/stats_viewer.py: StatsCollector.  start_collection and       *)
(* stop_collection are called from one thread (caller); every thread that  *)
(* start_collection creates runs _collection_loop.  A thread can be        *)
(* switched out between any two statements, so the loop is modelled one    *)
(* statement per step.  An entry of a port's history is modelled as the    *)
(* serial number of the sample among all samples collected for that port.  *)
(***************************************************************************)

\* stats_history['ports'][port_id] keeps at most this many entries.
HistoryLimit == 100

\* Threads start_collection may create.
MaxThreads == 2

\* Samples collected for one port.
MaxCollected == 102

\* controller.get_all_interfaces(): the port ids in the order they are listed.
PortIds == <<1, 2>>

\* A new thread is about to test the loop condition.
Thread == [at |-> "test", port |-> 1]

CollectorStep(c) ==
  /\ collector' = c
  /\ UNCHANGED <<devices, connections, pre, nops, cli>>

CollectorCall(op, c, res) ==
  /\ CollectorStep(c)
  /\ last' = [op |-> op, args |-> <<>>, res |-> res]

start_collection(c) ==
  IF c.running
  THEN [c |-> c, res |-> "False"]
  ELSE [c |-> [c EXCEPT !.running = TRUE,
                        !.threads = Append(@, Thread),
                        !.collection_thread = Len(c.threads) + 1],
        res |-> "True"]

StartCollection ==
  /\ collector.caller = "idle"
  /\ collector.running \/ Len(collector.threads) < MaxThreads
  /\ LET r == start_collection(collector)
     IN CollectorCall("start_collection", r.c, r.res)

\* stop_collection up to the join: the early return, or the flag cleared and
\* the caller waiting in join(timeout=2.0).
StopCollection ==
  /\ collector.caller = "idle"
  /\ IF ~collector.running
     THEN CollectorCall("stop_collection", collector, "False")
     ELSE /\ CollectorStep([collector EXCEPT !.running = FALSE,
                                             !.caller = "join"])
          /\ UNCHANGED last

\* join returns when the thread has ended or when the two seconds are over,
\* whichever comes first; stop_collection then returns True.
JoinReturns ==
  /\ collector.caller = "join"
  /\ CollectorCall("stop_collection",
                   [collector EXCEPT !.caller = "idle",
                                     !.stopped = @ \cup {collector.collection_thread}],
                   "True")

ThreadStep(t, at, port, ports, collected) ==
  CollectorStep([collector EXCEPT !.threads[t] = [at |-> at, port |-> port],
                                  !.ports = ports,
                                  !.collected = collected])
  /\ UNCHANGED last

\* while self._running: a pass of _collect_stats begins, or the thread ends.
LoopTest(t) ==
  /\ collector.threads[t].at = "test"
  /\ IF collector.running
     THEN IF Len(PortIds) = 0
          THEN ThreadStep(t, "sleep", 1, collector.ports, collector.collected)
          ELSE ThreadStep(t, "visit", 1, collector.ports, collector.collected)
     ELSE ThreadStep(t, "done", 1, collector.ports, collector.collected)

\* if port_id not in self.stats_history['ports']
Visit(t) ==
  LET th == collector.threads[t]
  IN /\ th.at = "visit"
     /\ IF PortIds[th.port] \in DOMAIN collector.ports
        THEN ThreadStep(t, "append", th.port, collector.ports, collector.collected)
        ELSE ThreadStep(t, "create", th.port, collector.ports, collector.collected)

\* self.stats_history['ports'][port_id] = []
Create(t) ==
  LET th == collector.threads[t]
      p == PortIds[th.port]
  IN /\ th.at = "create"
     /\ ThreadStep(t, "append", th.port,
                   (p :> <<>>) @@ collector.ports, collector.collected)

\* self.stats_history['ports'][port_id].append(stats)
AppendStats(t) ==
  LET th == collector.threads[t]
      p == PortIds[th.port]
      n == collector.collected[p] + 1
  IN /\ th.at = "append"
     /\ n <= MaxCollected
     /\ ThreadStep(t, "trim", th.port,
                   [collector.ports EXCEPT ![p] = Append(@, n)],
                   [collector.collected EXCEPT ![p] = n])

\* if len(...) > 100: pop(0); then the next interface, or the pass is over
\* and the thread sleeps.
Trim(t) ==
  LET th == collector.threads[t]
      p == PortIds[th.port]
      ports == IF Len(collector.ports[p]) > HistoryLimit
               THEN [collector.ports EXCEPT ![p] = Tail(@)]
               ELSE collector.ports
  IN /\ th.at = "trim"
     /\ IF th.port < Len(PortIds)
        THEN ThreadStep(t, "visit", th.port + 1, ports, collector.collected)
        ELSE ThreadStep(t, "sleep", 1, ports, collector.collected)

\* time.sleep(self._collection_interval) is over.
Wake(t) ==
  /\ collector.threads[t].at = "sleep"
  /\ ThreadStep(t, "test", 1, collector.ports, collector.collected)

CollectionLoop ==
  \E t \in 1..Len(collector.threads) :
    \/ LoopTest(t)
    \/ Visit(t)
    \/ Create(t)
    \/ AppendStats(t)
    \/ Trim(t)
    \/ Wake(t)

NextStats ==
  \/ StartCollection
  \/ StopCollection
  \/ JoinReturns
  \/ CollectionLoop

SpecStats == Init /\ [][NextStats]_vars

\* Thread t begins a pass of _collect_stats in this step.
BeginsPass(t) ==
  /\ collector.threads[t].at = "test"
  /\ collector'.threads[t].at \in {"visit", "sleep"}

\* C35: at most one collection loop runs at a time: once stop_collection has
\* returned True for a loop, that loop begins no further collection pass,
\* also when start_collection is called again afterwards.
C35_StoppedLoopCollectsNoMore ==
  [][\A t \in collector.stopped : ~BeginsPass(t)]_vars

\* Thread t completes a pass of _collect_stats in this step.
CompletesPass(t) ==
  /\ collector.threads[t].at = "trim"
  /\ collector'.threads[t].at = "sleep"

\* The last HistoryLimit of the samples 1..n, oldest first.
MostRecent(n) ==
  LET len == IF n < HistoryLimit THEN n ELSE HistoryLimit
  IN [k \in 1..len |-> n - len + k]

\* C36: after every completed collection pass each port's history holds at
\* most 100 entries, and they are the most recently collected samples of
\* the port in the order they were collected.
C36_HistoryBounded ==
  [][\A t \in 1..Len(collector.threads) :
       CompletesPass(t) =>
         \A p \in DOMAIN collector'.ports :
           LET h == collector'.ports[p]
               m == MostRecent(collector'.collected[p])
           IN /\ Len(h) <= HistoryLimit
              /\ Len(h) = Len(m)
              /\ \A k \in 1..Len(h) : h[k] = m[k]]_vars

(***************************************************************************)
(* python/cli/cli_parser.py and python/cli/cli_main.py: CommandContext,    *)
(* CommandParser.parse_and_execute and the command loop of CLI.run.  A     *)
(* command line is a sequence of characters.  A result message is the      *)
(* sequence of the pieces the code formats it from: its literal text, then *)
(* for a formatted message the characters or values filled in.  No command *)
(* module registers a handler with CommandHandler.register, so the table   *)
(* of handlers and of help texts is empty.                                 *)
(***************************************************************************)

\* Modes set_mode is called with; it accepts any string.
Modes == {"global", "interface", "vlan", "config"}

\* Objects passed as context_obj, and None.
ContextObjects == {None, <<"Ethernet1">>, <<"Ethernet2">>, <<"Vlan10">>}

Whitespace == {" ", "\t"}

UpperLetters ==
  <<"A", "B", "C", "D", "E", "F", "G", "H", "I", "J", "K", "L", "M",
    "N", "O", "P", "Q", "R", "S", "T", "U", "V", "W", "X", "Y", "Z">>

LowerLetters ==
  <<"a", "b", "c", "d", "e", "f", "g", "h", "i", "j", "k", "l", "m",
    "n", "o", "p", "q", "r", "s", "t", "u", "v", "w", "x", "y", "z">>

\* str.lower()
lower(s) ==
  [i \in 1..Len(s) |->
     IF \E k \in 1..26 : UpperLetters[k] = s[i]
     THEN LowerLetters[CHOOSE k \in 1..26 : UpperLetters[k] = s[i]]
     ELSE s[i]]

RECURSIVE lstrip(_)
lstrip(s) ==
  IF s # <<>> /\ Head(s) \in Whitespace THEN lstrip(Tail(s)) ELSE s

RECURSIVE rstrip(_)
rstrip(s) ==
  IF s # <<>> /\ s[Len(s)] \in Whitespace
  THEN rstrip(SubSeq(s, 1, Len(s) - 1))
  ELSE s

\* str.strip()
strip(s) == rstrip(lstrip(s))

\* str.startswith(prefix)
startswith(s, prefix) ==
  Len(s) >= Len(prefix) /\ SubSeq(s, 1, Len(prefix)) = prefix

\* s.split(maxsplit=1)[1] of a stripped s, or None when s has one word.
SecondWord(s) ==
  IF \E i \in 1..Len(s) : s[i] \in Whitespace
  THEN LET i == CHOOSE i \in 1..Len(s) :
                  s[i] \in Whitespace /\ \A j \in 1..(i - 1) : s[j] \notin Whitespace
       IN lstrip(SubSeq(s, i + 1, Len(s)))
  ELSE None

CommandResult(success, message) == [success |-> success, message |-> message]

\* Lines typed at the prompt.
Commands ==
  {<<"e", "x", "i", "t">>,
   <<" ", "E", "X", "I", "T", " ">>,
   <<"Q", "u", "i", "t">>,
   <<"q", "u", "i", "t", "\t">>,
   <<"e", "n", "d">>,
   <<" ", " ", "E", "n", "d">>,
   <<>>,
   <<" ", " ">>,
   <<"e", "x", "i", "t", "s">>,
   <<"e", "n", "d", "d">>,
   <<"s", "h", "o", "w", " ", "v", "l", "a", "n">>,
   <<"h", "e", "l", "p">>,
   <<"h", "e", "l", "p", " ", "e", "x", "i", "t">>}

set_mode_keeps_other(ctx, mode, context_obj) ==
  IF mode = "interface" /\ context_obj # None
  THEN [ctx EXCEPT !.mode = mode, !.current_interface = context_obj]
  ELSE IF mode = "vlan" /\ context_obj # None
  THEN [ctx EXCEPT !.mode = mode, !.current_vlan = context_obj]
  ELSE IF mode = "global"
  THEN [ctx EXCEPT !.mode = mode, !.current_interface = None,
                   !.current_vlan = None]
  ELSE [ctx EXCEPT !.mode = mode]

set_mode(ctx, mode, context_obj) ==
  IF mode = "interface" /\ context_obj # None
  THEN [ctx EXCEPT !.mode = mode, !.current_interface = context_obj,
                   !.current_vlan = None]
  ELSE IF mode = "vlan" /\ context_obj # None
  THEN [ctx EXCEPT !.mode = mode, !.current_vlan = context_obj,
                   !.current_interface = None]
  ELSE IF mode = "global"
  THEN [ctx EXCEPT !.mode = mode, !.current_interface = None,
                   !.current_vlan = None]
  ELSE [ctx EXCEPT !.mode = mode]

Parsed(ctx, result) == [context |-> ctx, result |-> result]

parse_and_execute_exit_anywhere(ctx, command_str) ==
  LET s == strip(command_str)
  IN IF s = <<>>
     THEN Parsed(ctx, CommandResult(TRUE, <<>>))
     ELSE IF lower(s) \in {<<"e", "x", "i", "t">>, <<"q", "u", "i", "t">>}
     THEN Parsed(ctx, CommandResult(FALSE, <<"exit">>))
     ELSE IF lower(s) = <<"e", "n", "d">>
     THEN IF ctx.mode # "global"
          THEN Parsed(set_mode(ctx, "global", None),
                      CommandResult(TRUE, <<"Returned to global mode">>))
          ELSE Parsed(ctx, CommandResult(FALSE, <<"Cannot use 'end' in global mode">>))
     ELSE Parsed(ctx, CommandResult(FALSE, <<"Unknown command: ">> \o s))

parse_and_execute(ctx, command_str) ==
  LET s == strip(command_str)
  IN IF s = <<>>
     THEN Parsed(ctx, CommandResult(TRUE, <<>>))
     ELSE IF lower(s) \in {<<"e", "x", "i", "t">>, <<"q", "u", "i", "t">>}
     THEN IF ctx.mode # "global"
          THEN Parsed(set_mode(ctx, "global", None),
                      CommandResult(TRUE, <<"Returned to global mode">>))
          ELSE Parsed(ctx, CommandResult(FALSE, <<"exit">>))
     ELSE IF lower(s) = <<"e", "n", "d">>
     THEN IF ctx.mode # "global"
          THEN Parsed(set_mode(ctx, "global", None),
                      CommandResult(TRUE, <<"Returned to global mode">>))
          ELSE Parsed(ctx, CommandResult(FALSE, <<"Cannot use 'end' in global mode">>))
     ELSE Parsed(ctx, CommandResult(FALSE, <<"Unknown command: ">> \o s))

\* get_command_help with no help text registered.
get_command_help(ctx, command_str) ==
  IF command_str # None /\ command_str # <<>>
  THEN CommandResult(FALSE, <<"No help available for ">> \o command_str \o <<ctx.mode>>)
  ELSE CommandResult(TRUE, <<"Available commands in ", ctx.mode>>)

CliStep(op, args, c) ==
  /\ cli' = c
  /\ last' = [op |-> op, args |-> args, res |-> OK]
  /\ UNCHANGED <<devices, connections, pre, nops, collector>>

SetMode ==
  \E mode \in Modes, context_obj \in ContextObjects :
    CliStep("set_mode", <<mode, context_obj>>,
            [cli EXCEPT !.context = set_mode(cli.context, mode, context_obj)])

\* One round of the loop of CLI.run on the line command.
Finish(op, command, ctx, result) ==
  CliStep(op, <<command>>,
          [context |-> ctx, result |-> result,
           running |-> ~(~result.success /\ result.message = <<"exit">>)])

RunCommand ==
  \E command \in Commands :
    /\ cli.running
    /\ IF strip(command) = <<>>
       THEN CliStep("continue", <<command>>, cli)
       ELSE IF startswith(lower(strip(command)), <<"h", "e", "l", "p">>)
       THEN Finish("get_command_help", command, cli.context,
                   get_command_help(cli.context, SecondWord(strip(command))))
       ELSE LET r == parse_and_execute(cli.context, command)
            IN Finish("parse_and_execute", command, r.context, r.result)

NextCli ==
  \/ SetMode
  \/ RunCommand

SpecCli == Init /\ [][NextCli]_vars

\* The lines that are the word exit or quit, and the lines that are end.
ExitLines ==
  {<<"e", "x", "i", "t">>, <<" ", "E", "X", "I", "T", " ">>,
   <<"Q", "u", "i", "t">>, <<"q", "u", "i", "t", "\t">>}

EndLines == {<<"e", "n", "d">>, <<" ", " ", "E", "n", "d">>}

Executed(lines) == last'.op = "parse_and_execute" /\ last'.args[1] \in lines

Terminates == ~cli'.result.success /\ cli'.result.message = <<"exit">>

\* C37: exit or quit in a mode other than global switches to global mode and
\* reports success without ending the loop; in global mode it returns the
\* failing result "exit" and the loop ends, and nothing else does; end
\* returns to global mode from any other mode and is an error in global mode
\* that leaves the loop running.
C37_ExitAndEnd ==
  [][/\ Executed(ExitLines) =>
          IF cli.context.mode # "global"
          THEN /\ cli'.context.mode = "global"
               /\ cli'.result.success
               /\ cli'.running
          ELSE /\ Terminates
               /\ ~cli'.running
               /\ cli'.context = cli.context
     /\ Executed(EndLines) =>
          IF cli.context.mode # "global"
          THEN /\ cli'.context.mode = "global"
               /\ cli'.result.success
               /\ cli'.running
          ELSE /\ ~cli'.result.success
               /\ ~Terminates
               /\ cli'.running
               /\ cli'.context = cli.context
     /\ (cli.running /\ ~cli'.running) =>
          /\ Executed(ExitLines)
          /\ cli.context.mode = "global"
          /\ Terminates]_vars

\* exit has been entered outside global mode: the mode is global again and
\* the loop goes on.
C37_Witness ==
  /\ last.op = "parse_and_execute"
  /\ last.args[1] \in ExitLines
  /\ cli.result.success
  /\ cli.result.message = <<"Returned to global mode">>
  /\ cli.running

\* C38: after any sequence of set_mode calls at most one of
\* current_interface and current_vlan is set, and in mode "global" both are
\* unset.
C38_OneContextObject ==
  /\ ~(cli.context.current_interface # None /\ cli.context.current_vlan # None)
  /\ cli.context.mode = "global" =>
       /\ cli.context.current_interface = None
       /\ cli.context.current_vlan = None

\* set_mode("interface", i) and then set_mode("vlan") without an object:
\* the mode is vlan and the interface is still the one object set.
C38_Witness ==
  /\ last.op = "set_mode"
  /\ last.args = <<"vlan", None>>
  /\ cli.context.mode = "vlan"
  /\ cli.context.current_interface = <<"Ethernet1">>
  /\ cli.context.current_vlan = None

====
